---- MODULE Spec2Model ----
(***************************************************************************)
(* State-machine model of VideoSuperResolution's dataset loader            *)
(* (VSR/DataLoader/Dataset.py) and of the shape algebra of                 *)
(* VSRTorch/Models/Arch.py (SpaceToDim, SpaceToDepth, SpaceToBatch,        *)
(* Upsample.__init__).                                                     *)
(*                                                                         *)
(* Python lists are sequences; Python index i is sequence index i + 1.     *)
(***************************************************************************)
EXTENDS Integers, Sequences, FiniteSets, TLC

VARIABLES
  x,        \* SpaceToDim: the input tensor of forward
  module,   \* SpaceToDim: the constructed module (class and fields)
  out,      \* SpaceToDim: what forward returned or raised
  tpc,      \* SpaceToDim: "built" before forward is called, "returned" after
  self_scale, \* Upsample: self.scale
  scale,    \* Upsample.__init__: the local scale
  method,   \* Upsample: self.method
  act,      \* Upsample.__init__: kwargs.get('activation')
  samplers, \* Upsample.__init__: the list of stages built so far
  upc,      \* Upsample.__init__: "loop", "done" or "raised"
  args,     \* Dataset: self._args
  stored,   \* Dataset: history, the value last stored under each name
  got,      \* Dataset: the last attribute read and what it gave
  fs,       \* the filesystem: its directories and its files
  denied,   \* the paths at and below which Path.exists raises OSError
  url,      \* _glob_absolute_pattern: url
  url_p,    \* _glob_absolute_pattern: url_p
  result,   \* _glob_absolute_pattern: what it returned
  gpc,      \* _glob_absolute_pattern: the line it is at
  config,   \* load_datasets: the parsed JSON file
  datasets, \* load_datasets: the dict it returns, name -> Dataset._args
  lpc       \* load_datasets: "call", "returned" or "raised"

tvars == <<x, module, out, tpc>>

uvars == <<self_scale, scale, method, act, samplers, upc>>

dvars == <<args, stored, got>>

gvars == <<fs, denied, url, url_p, result, gpc>>

lvars == <<config, datasets, lpc>>

vars == <<tvars, uvars, dvars, gvars, lvars>>

\* the parts of the state a specification does not use
TIdle == x = <<>> /\ module = <<>> /\ out = <<>> /\ tpc = "idle"

UIdle ==
  /\ self_scale = 0 /\ scale = 0 /\ method = "" /\ act = "" /\ samplers = <<>>
  /\ upc = "idle"

DIdle == args = <<>> /\ stored = <<>> /\ got = <<>>

GIdle ==
  /\ fs = <<>> /\ denied = {} /\ url = <<>> /\ url_p = <<>> /\ result = <<>>
  /\ gpc = "idle"

LIdle == config = <<>> /\ datasets = <<>> /\ lpc = "idle"

(***************************************************************************)
(* Bounds                                                                  *)
(***************************************************************************)
MaxRank == 3
MaxSize == 3
MaxBlocks == 2
MaxScale == 2
MaxUpscale == 16
MaxKw == 2
MaxDepth == 2
MaxNodes == 3
MaxItems == 2

(***************************************************************************)
(* Python list and integer helpers                                         *)
(***************************************************************************)
Abs(i) == IF i < 0 THEN -i ELSE i

Max2(a, b) == IF a >= b THEN a ELSE b

Min2(a, b) == IF a <= b THEN a ELSE b

\* l[i] of a Python list, i possibly negative
PyGet(l, i) == IF i < 0 THEN l[Len(l) + i + 1] ELSE l[i + 1]

\* whether l[i] raises IndexError
PyInRange(l, i) == -Len(l) <= i /\ i < Len(l)

\* l[i] = v of a Python list, i possibly negative
PySet(l, i, v) ==
  LET k == IF i < 0 THEN Len(l) + i + 1 ELSE i + 1
  IN  [l EXCEPT ![k] = v]

\* l.insert(i, v) for i >= 0: v goes before index i, or at the end
PyInsert(l, i, v) ==
  LET k == Min2(i, Len(l))
  IN  SubSeq(l, 1, k) \o <<v>> \o SubSeq(l, k + 1, Len(l))

\* [i for i in range(n)]
PyRange(n) == [k \in 1..Max2(n, 0) |-> k - 1]

\* [i for i in range(n) if i not in l]
RECURSIVE RangeNotIn(_, _, _)
RangeNotIn(i, n, l) ==
  IF i >= n THEN <<>>
  ELSE (IF \E k \in 1..Len(l) : l[k] = i THEN <<>> ELSE <<i>>)
       \o RangeNotIn(i + 1, n, l)

MinOf(l) == CHOOSE m \in {l[k] : k \in 1..Len(l)} :
              \A k \in 1..Len(l) : m <= l[k]

(***************************************************************************)
(* Tensors: a shape and the elements in row-major order                    *)
(***************************************************************************)
RECURSIVE Numel(_)
Numel(shape) ==
  IF shape = <<>> THEN 1 ELSE Head(shape) * Numel(Tail(shape))

\* the stride of axis k (1-based) of a contiguous tensor
Stride(shape, k) == Numel(SubSeq(shape, k + 1, Len(shape)))

\* the multi-index of flat offset f
Unravel(f, shape) ==
  [k \in 1..Len(shape) |-> (f \div Stride(shape, k)) % shape[k]]

RECURSIVE RavelFrom(_, _, _)
RavelFrom(idx, shape, k) ==
  IF k > Len(shape) THEN 0
  ELSE idx[k] * Stride(shape, k) + RavelFrom(idx, shape, k + 1)

\* the flat offset of a multi-index
Ravel(idx, shape) == RavelFrom(idx, shape, 1)

\* the element at a multi-index
At(t, idx) == t.data[Ravel(idx, t.shape) + 1]

\* a tensor whose elements are their own flat offsets: every element is
\* distinct, so an output element names the input element it came from
Arange(shape) == [shape |-> shape, data |-> [k \in 1..Numel(shape) |-> k - 1]]

\* x.reshape(*shape) succeeds iff the element counts agree
ReshapeOk(t, shape) ==
  /\ \A k \in 1..Len(shape) : shape[k] >= 0
  /\ Numel(shape) = Numel(t.shape)

Reshape(t, shape) == [shape |-> shape, data |-> t.data]

\* permute accepts negative axes, and rejects a list that is not a
\* permutation of all axes
WrapAxis(a, n) == IF a < 0 THEN a + n ELSE a

PermuteOk(t, perm) ==
  LET n == Len(t.shape)
  IN  /\ Len(perm) = n
      /\ \A k \in 1..n : -n <= perm[k] /\ perm[k] < n
      /\ \A k, l \in 1..n : k # l => WrapAxis(perm[k], n) # WrapAxis(perm[l], n)

\* x.permute(*perm): output axis k is input axis perm[k]
Permute(t, perm) ==
  LET n == Len(t.shape)
      ax == [k \in 1..n |-> WrapAxis(perm[k], n) + 1]
      inv == [a \in 1..n |-> CHOOSE k \in 1..n : ax[k] = a]
      oshape == [k \in 1..n |-> t.shape[ax[k]]]
  IN  [shape |-> oshape,
       data |-> [f \in 1..Numel(oshape) |->
                   LET oidx == Unravel(f - 1, oshape)
                   IN  At(t, [a \in 1..n |-> oidx[inv[a]]])]]

(***************************************************************************)
(* SpaceToDim                                                              *)
(***************************************************************************)
\* SpaceToDim.__init__
SpaceToDimInit(scale_factor, dims, dim) ==
  [class |-> "SpaceToDim", scale_factor |-> scale_factor, dims |-> dims,
   dim |-> dim]

\* SpaceToDepth.__init__: body = SpaceToDim(block_size, dim=1)
SpaceToDepthInit(block_size) ==
  [SpaceToDimInit(block_size, <<-2, -1>>, 1) EXCEPT !.class = "SpaceToDepth"]

\* SpaceToBatch.__init__: body = SpaceToDim(block_size, dim=0)
SpaceToBatchInit(block_size) ==
  [SpaceToDimInit(block_size, <<-2, -1>>, 0) EXCEPT !.class = "SpaceToBatch"]

\* dims after lines 230-233: <<larger axis, smaller axis>>
NormDims(self, rank) ==
  LET d0 == IF self.dims[1] < 0 THEN rank + self.dims[1] ELSE self.dims[1]
      d1 == IF self.dims[2] < 0 THEN rank + self.dims[2] ELSE self.dims[2]
  IN  <<Max2(Abs(d0), Abs(d1)), Min2(Abs(d0), Abs(d1))>>

\* the guard of line 234: self.dim in dims
DimInDims(self, dims) == self.dim = dims[1] \/ self.dim = dims[2]

\* shape after lines 236-239
SplitShape(self, shape0, dims) ==
  LET s == self.scale_factor
      s1 == PySet(shape0, dims[1], PyGet(shape0, dims[1]) \div s)
      s2 == PySet(s1, dims[2], PyGet(s1, dims[2]) \div s)
      s3 == PyInsert(s2, dims[1] + 1, s)
  IN  PyInsert(s3, dims[2] + 1, s)

\* dim after lines 240-241
ShiftDim(self, dims) ==
  LET d == IF self.dim < dims[2] THEN self.dim ELSE self.dim + 1
  IN  IF d <= dims[1] THEN d ELSE d + 1

\* BuildPerm with the two block axes taken in the other order
BuildPermSwapped(dim, dims, n) ==
  LET p0 == <<dim, dims[1] + 2, dims[2] + 1>>
      p1 == PyRange(MinOf(p0)) \o p0
  IN  p1 \o RangeNotIn(0, n, p1)

\* perm after lines 243-245; n is the rank of the reshaped tensor
BuildPerm(dim, dims, n) ==
  LET p0 == <<dim, dims[2] + 1, dims[1] + 2>>
      p1 == PyRange(MinOf(p0)) \o p0
  IN  p1 \o RangeNotIn(0, n, p1)

\* FinalShape with the integrate size multiplied by s, not s ** 2
FinalShapeOnce(self, shape0) ==
  LET s == self.scale_factor
      s1 == PySet(shape0, self.dim, PyGet(shape0, self.dim) * s)
      s2 == PySet(s1, self.dims[1], PyGet(s1, self.dims[1]) \div s)
  IN  PySet(s2, self.dims[2], PyGet(s2, self.dims[2]) \div s)

\* shape after lines 247-250
FinalShape(self, shape0) ==
  LET s == self.scale_factor
      s1 == PySet(shape0, self.dim, PyGet(shape0, self.dim) * s * s)
      s2 == PySet(s1, self.dims[1], PyGet(s1, self.dims[1]) \div s)
  IN  PySet(s2, self.dims[2], PyGet(s2, self.dims[2]) \div s)

Raise(exc, stage) == [kind |-> "raise", exc |-> exc, stage |-> stage]

\* SpaceToDim.forward: the returned tensor, or the exception and how many
\* of reshape, permute, reshape had run when it was raised
Forward(self, t) ==
  LET rank == Len(t.shape)
      dims == NormDims(self, rank)
  IN  IF DimInDims(self, dims)
      THEN Raise("RuntimeError: Integrate dimension can't be space dimension!", 0)
      ELSE
      LET shape == SplitShape(self, t.shape, dims)
          dim == ShiftDim(self, dims)
      IN  IF ~ReshapeOk(t, shape)
          THEN Raise("RuntimeError: reshape", 0)
          ELSE
          LET x1 == Reshape(t, shape)
              perm == BuildPerm(dim, dims, Len(shape))
          IN  IF ~PermuteOk(x1, perm)
              THEN Raise("RuntimeError: permute", 1)
              ELSE
              LET x2 == Permute(x1, perm)
                  fshape == FinalShape(self, t.shape)
              IN  IF ~ReshapeOk(x2, fshape)
                  THEN Raise("RuntimeError: reshape", 2)
                  ELSE [kind |-> "tensor", t |-> Reshape(x2, fshape),
                        split |-> shape, perm |-> perm]

NoOut == [kind |-> "none"]

Ranks == 2..MaxRank

Shapes(r) == [1..r -> 1..MaxSize]

\* the ways of writing an axis of a rank-r tensor
Axes(r) == (0 - r)..(r - 1)

\* every SpaceToDim, SpaceToDepth and SpaceToBatch over rank-r inputs
Modules(r) ==
  {SpaceToDimInit(s, <<a, b>>, d) :
     s \in 1..MaxScale, a \in Axes(r), b \in Axes(r), d \in Axes(r)}
  \cup {SpaceToDepthInit(b) : b \in 1..MaxScale}
  \cup {SpaceToBatchInit(b) : b \in 1..MaxScale}

\* the SpaceToDim modules forward accepts on rank-r inputs: two distinct
\* space axes, written either way, and a non-negative integrate axis that
\* is neither
AcceptedModules(r) ==
  {m \in {SpaceToDimInit(s, <<a, b>>, d) :
            s \in 1..MaxScale, a \in Axes(r), b \in Axes(r), d \in 0..(r - 1)} :
     /\ WrapAxis(m.dims[1], r) # WrapAxis(m.dims[2], r)
     /\ m.dim # WrapAxis(m.dims[1], r)
     /\ m.dim # WrapAxis(m.dims[2], r)}

\* any module on any input
TInit ==
  /\ \E r \in Ranks :
       /\ x \in {Arange(sh) : sh \in Shapes(r)}
       /\ module \in Modules(r)
  /\ out = NoOut
  /\ tpc = "built"
  /\ UIdle /\ DIdle /\ GIdle /\ LIdle

\* an accepted SpaceToDim on any input
AInit ==
  /\ \E r \in Ranks :
       /\ x \in {Arange(sh) : sh \in Shapes(r)}
       /\ module \in AcceptedModules(r)
  /\ out = NoOut
  /\ tpc = "built"
  /\ UIdle /\ DIdle /\ GIdle /\ LIdle

\* SpaceToDepth and SpaceToBatch on image batches (N, C, H, W), the images
\* up to MaxBlocks blocks of the largest block size high and wide
BInit ==
  /\ x \in {Arange(<<n, c, h, w>>) :
              n \in 1..MaxSize, c \in 1..MaxSize,
              h \in 1..(MaxScale * MaxBlocks), w \in 1..(MaxScale * MaxBlocks)}
  /\ module \in {SpaceToDepthInit(b) : b \in 1..MaxScale}
                \cup {SpaceToBatchInit(b) : b \in 1..MaxScale}
  /\ out = NoOut
  /\ tpc = "built"
  /\ UIdle /\ DIdle /\ GIdle /\ LIdle

\* SpaceToDim.forward
SpaceToDimForward ==
  /\ tpc = "built"
  /\ module.class = "SpaceToDim"
  /\ out' = Forward(module, x)
  /\ tpc' = "returned"
  /\ UNCHANGED <<x, module, uvars, dvars, gvars, lvars>>

\* SpaceToDepth.forward: self.body(x)
SpaceToDepthForward ==
  /\ tpc = "built"
  /\ module.class = "SpaceToDepth"
  /\ out' = Forward(module, x)
  /\ tpc' = "returned"
  /\ UNCHANGED <<x, module, uvars, dvars, gvars, lvars>>

\* SpaceToBatch.forward: self.body(x)
SpaceToBatchForward ==
  /\ tpc = "built"
  /\ module.class = "SpaceToBatch"
  /\ out' = Forward(module, x)
  /\ tpc' = "returned"
  /\ UNCHANGED <<x, module, uvars, dvars, gvars, lvars>>

TNext == SpaceToDimForward \/ SpaceToDepthForward \/ SpaceToBatchForward

ANext == SpaceToDimForward

BNext == SpaceToDepthForward \/ SpaceToBatchForward

SpecTensor == TInit /\ [][TNext]_vars

SpecAccepted == AInit /\ [][ANext]_vars

SpecBlocks == BInit /\ [][BNext]_vars

(***************************************************************************)
(* Claims about SpaceToDim, SpaceToDepth and SpaceToBatch                  *)
(***************************************************************************)
Rank == Len(x.shape)

\* the two space axes and the integrate axis as axes of the input, 0-based
AxisA == WrapAxis(module.dims[1], Rank)

AxisB == WrapAxis(module.dims[2], Rank)

AxisP == Min2(AxisA, AxisB)

AxisQ == Max2(AxisA, AxisB)

AxisD == WrapAxis(module.dim, Rank)

Divisible ==
  /\ x.shape[AxisP + 1] % module.scale_factor = 0
  /\ x.shape[AxisQ + 1] % module.scale_factor = 0

\* the input shape with the integrate size times s*s and the two space
\* sizes divided by s
ExpectedShape ==
  LET s == module.scale_factor
  IN  [k \in 1..Rank |->
         IF k = AxisD + 1 THEN x.shape[k] * s * s
         ELSE IF k = AxisP + 1 \/ k = AxisQ + 1 THEN x.shape[k] \div s
         ELSE x.shape[k]]

\* the input element that the claimed layout puts at output index o:
\* o[d] = t*s*s + i*s + j comes from <<d: t, p: h*s + i, q: w*s + j>>
SourceIndex(o) ==
  LET s == module.scale_factor
      c == o[AxisD + 1]
      i == (c % (s * s)) \div s
      j == c % s
  IN  [k \in 1..Rank |->
         IF k = AxisD + 1 THEN c \div (s * s)
         ELSE IF k = AxisP + 1 THEN o[k] * s + i
         ELSE IF k = AxisQ + 1 THEN o[k] * s + j
         ELSE o[k]]

BlockLayout ==
  /\ out.kind = "tensor"
  /\ out.t.shape = ExpectedShape
  /\ \A f \in 0..(Numel(ExpectedShape) - 1) :
       LET o == Unravel(f, ExpectedShape)
       IN  At(out.t, o) = At(x, SourceIndex(o))

\* C1: SpaceToDepth(b) turns (N, C, H, W) with b | H and b | W into
\* (N, C*b*b, H/b, W/b) with out[n, c*b*b + i*b + j, h, w] =
\* in[n, c, h*b + i, w*b + j]; SpaceToBatch(b) turns it into
\* (N*b*b, C, H/b, W/b) with out[n*b*b + i*b + j, c, h, w] = the same element
C1_BlockLayout ==
  (tpc = "returned" /\ Divisible) =>
     LET b == module.scale_factor
         N == x.shape[1]
         C == x.shape[2]
         H == x.shape[3]
         W == x.shape[4]
     IN  /\ out.kind = "tensor"
         /\ out.t.shape = IF module.class = "SpaceToDepth"
                          THEN <<N, C * b * b, H \div b, W \div b>>
                          ELSE <<N * b * b, C, H \div b, W \div b>>
         /\ \A n \in 0..(N - 1), c \in 0..(C - 1) :
            \A h \in 0..((H \div b) - 1), w \in 0..((W \div b) - 1) :
            \A i, j \in 0..(b - 1) :
              At(out.t, IF module.class = "SpaceToDepth"
                        THEN <<n, c * b * b + i * b + j, h, w>>
                        ELSE <<n * b * b + i * b + j, c, h, w>>)
                = At(x, <<n, c, h * b + i, w * b + j>>)

C1_Witness ==
  /\ tpc = "returned"
  /\ module.class = "SpaceToDepth"
  /\ module.scale_factor = 2
  /\ x.shape = <<2, 2, 4, 4>>
  /\ out.kind = "tensor"
  /\ At(out.t, <<1, 7, 1, 0>>) = At(x, <<1, 1, 3, 1>>)

\* C2: on an accepted configuration whose two space sizes are divisible by
\* s, forward returns a tensor with as many elements as the input, of the
\* input shape with the size at dim times s*s and the two space sizes
\* divided by s; the intermediate shape has two extra axes of size s and
\* the input's element count
C2_ShapeAlgebra ==
  (tpc = "returned" /\ Divisible) =>
     /\ out.kind = "tensor"
     /\ out.t.shape = ExpectedShape
     /\ Numel(out.t.shape) = Numel(x.shape)
     /\ Len(out.t.data) = Len(x.data)
     /\ Len(out.split) = Rank + 2
     /\ out.split[AxisP + 2] = module.scale_factor
     /\ out.split[AxisQ + 3] = module.scale_factor
     /\ Numel(out.split) = Numel(x.shape)

C2_Witness ==
  /\ tpc = "returned"
  /\ module.scale_factor = 2
  /\ module.dims = <<-1, 0>>
  /\ module.dim = 1
  /\ x.shape = <<2, 3, 2>>
  /\ out.kind = "tensor"
  /\ out.t.shape = <<1, 12, 1>>

\* C5: forward raises RuntimeError("Integrate dimension can't be space
\* dimension!") before any reshape or permute whenever dim denotes the
\* same axis as one of the two space dims, however the indices are written
C5_RaisesOnSpaceDim ==
  (/\ tpc = "returned"
   /\ module.class = "SpaceToDim"
   /\ (AxisD = AxisA \/ AxisD = AxisB)) =>
     out = Raise("RuntimeError: Integrate dimension can't be space dimension!", 0)

\* C6: on every accepted configuration with divisible sizes, wherever dim
\* lies relative to the two space dims, out[d: t*s*s + i*s + j, p: h, q: w]
\* = in[d: t, p: h*s + i, q: w*s + j] with all other indices equal
C6_LayoutAnyPosition ==
  (/\ tpc = "returned"
   /\ module.class = "SpaceToDim"
   /\ module.dim >= 0
   /\ AxisA # AxisB
   /\ AxisD # AxisA
   /\ AxisD # AxisB
   /\ Divisible) => BlockLayout

(***************************************************************************)
(* Upsample.__init__                                                       *)
(***************************************************************************)
Methods == {"ps", "nearest", "deconv", "linear"}

\* kwargs.get('activation'): absent, or a name
None == "None"

Activations == {None, "relu", "prelu"}

\* Activation.__init__: name.lower() needs a string
ActivationRaises(name) == name = None

\* Activation(name): a module, which is truthy
Activation(name) == [op |-> "Activation", name |-> name]

\* upsampler's default activation=None
NoActivation == [op |-> "None", name |-> None]

\* body.insert(1, activation) under "if activation:"
WithActivation(body, activation) ==
  IF activation.op = "None" THEN body ELSE PyInsert(body, 1, activation)

\* Upsample.upsampler: the stage, its scale factor and its layers
upsampler(m, s, activation) ==
  LET body ==
        IF m = "ps"
        THEN WithActivation(<<[op |-> "Conv2d", scale |-> s],
                              [op |-> "PixelShuffle", scale |-> s]>>, activation)
        ELSE IF m = "deconv"
        THEN WithActivation(<<[op |-> "ConvTranspose2d", scale |-> s]>>, activation)
        ELSE IF m = "nearest"
        THEN WithActivation(<<[op |-> "_UpsampleNearest", scale |-> s]>>, activation)
        ELSE WithActivation(<<[op |-> "_UpsampleLinear", scale |-> s]>>, activation)
  IN  [scale |-> s, body |-> body]

\* the state on reaching the loop of line 177
UInit ==
  /\ scale \in 1..MaxUpscale
  /\ self_scale = scale
  /\ method \in Methods
  /\ act \in Activations
  /\ samplers = <<>>
  /\ upc = "loop"
  /\ TIdle /\ DIdle /\ GIdle /\ LIdle

\* lines 178-180: an odd scale, or 2, is the last stage
AppendLast ==
  /\ upc = "loop"
  /\ scale > 1
  /\ scale % 2 = 1 \/ scale = 2
  /\ samplers' = Append(samplers, upsampler(method, scale, NoActivation))
  /\ upc' = "done"
  /\ UNCHANGED <<self_scale, scale, method, act, tvars, dvars, gvars, lvars>>

\* lines 181-183: a x2 stage with Activation(act), and scale //= 2
AppendHalf ==
  /\ upc = "loop"
  /\ scale > 1
  /\ ~(scale % 2 = 1 \/ scale = 2)
  /\ IF ActivationRaises(act)
     THEN /\ upc' = "raised"
          /\ UNCHANGED <<scale, samplers>>
     ELSE /\ samplers' = Append(samplers, upsampler(method, 2, Activation(act)))
          /\ scale' = scale \div 2
          /\ upc' = "loop"
  /\ UNCHANGED <<self_scale, method, act, tvars, dvars, gvars, lvars>>

\* line 177 false, line 184
ExitLoop ==
  /\ upc = "loop"
  /\ ~(scale > 1)
  /\ upc' = "done"
  /\ UNCHANGED <<self_scale, scale, method, act, samplers, tvars, dvars, gvars, lvars>>

UNext == AppendLast \/ AppendHalf \/ ExitLoop

SpecUpsample == UInit /\ [][UNext]_vars

RECURSIVE Product(_)
Product(stages) ==
  IF stages = <<>> THEN 1 ELSE Head(stages).scale * Product(Tail(stages))

ChainOk ==
  LET n == Len(samplers)
  IN  /\ Product(samplers) = self_scale
      /\ \A k \in 1..(n - 1) : samplers[k].scale = 2
      /\ n > 0 => \/ samplers[n].scale = 2
                  \/ samplers[n].scale % 2 = 1 /\ samplers[n].scale > 1
      /\ self_scale = 1 => n = 0

\* C9: for every integer scale >= 1 the loop of Upsample.__init__ ends
\* with a chain of stages whose factors multiply to scale, all 2 but the
\* last, which is 2 or odd and greater than 1
C9_ChainBuilt ==
  /\ upc \in {"done", "raised"} => (upc = "done" /\ ChainOk)
  /\ upc = "loop" => ENABLED UNext

(***************************************************************************)
(* Dataset                                                                 *)
(***************************************************************************)
\* attribute names: the three splits, the two defaults, a free name, and
\* the name of the method the class defines at line 39
Names == {"train", "val", "mode", "depth", "scale", "setattr"}

Splits == {"train", "val", "test"}

\* what normal attribute lookup finds on the class, before __getattr__
ClassAttrs == {"setattr"}

Values == {"a", "b"}

\* dicts of keyword arguments with at most MaxKw keys
Kwargs ==
  UNION {[ks -> Values] : ks \in {k \in SUBSET Names : Cardinality(k) <= MaxKw}}

\* d[k] = v of a dict
DictSet(d, k, v) ==
  [n \in DOMAIN d \cup {k} |-> IF n = k THEN v ELSE d[n]]

\* for key in kwargs: d[key] = kwargs[key]
DictUpdate(d, kw) ==
  [n \in DOMAIN d \cup DOMAIN kw |-> IF n \in DOMAIN kw THEN kw[n] ELSE d[n]]

\* Dataset.__init__ with the defaults never filled in
DatasetInitNoDefaults(kwargs) == kwargs

\* Dataset.__init__: self._args
DatasetInit(kwargs) ==
  LET a1 == DictSet(kwargs, "mode",
                    IF "mode" \notin DOMAIN kwargs THEN "pil-image1"
                    ELSE kwargs["mode"])
  IN  DictSet(a1, "depth",
              IF "depth" \notin DOMAIN a1 THEN 1 ELSE a1["depth"])

\* Dataset.__getattr__, which Python calls when normal lookup fails
GetAttrFallback(a, item) ==
  IF item \in DOMAIN a THEN [kind |-> "value", v |-> a[item]]
  ELSE IF item \in Splits THEN [kind |-> "raise", exc |-> "ValueError"]
  ELSE [kind |-> "None"]

\* reading dataset.<item>
GetAttr(a, item) ==
  IF item \in ClassAttrs THEN [kind |-> "method", name |-> item]
  ELSE GetAttrFallback(a, item)

\* got when the last operation was not a read
NoRead == [item |-> "", res |-> [kind |-> "none"]]

\* Dataset(**kwargs)
DInit ==
  /\ \E kwargs \in Kwargs :
       /\ args = DatasetInit(kwargs)
       /\ stored = DictUpdate([n \in {"mode", "depth"} |->
                                 IF n = "mode" THEN "pil-image1" ELSE 1], kwargs)
  /\ got = NoRead
  /\ TIdle /\ UIdle /\ GIdle /\ LIdle

\* Dataset.__setitem__
SetItem ==
  /\ \E key \in Names, value \in Values :
       /\ args' = DictSet(args, key, value)
       /\ stored' = DictSet(stored, key, value)
  /\ got' = NoRead
  /\ UNCHANGED <<tvars, uvars, gvars, lvars>>

\* Dataset.setattr
SetAttr ==
  /\ \E kwargs \in Kwargs :
       /\ args' = DictUpdate(args, kwargs)
       /\ stored' = DictUpdate(stored, kwargs)
  /\ got' = NoRead
  /\ UNCHANGED <<tvars, uvars, gvars, lvars>>

\* reading an attribute
ReadAttr ==
  /\ \E item \in Names :
       got' = [item |-> item, res |-> GetAttr(args, item)]
  /\ UNCHANGED <<args, stored, tvars, uvars, gvars, lvars>>

DNext == SetItem \/ SetAttr \/ ReadAttr

SpecDataset == DInit /\ [][DNext]_vars

\* what the claim gives for a read of a name __getattr__ decides
ReadAsStored(item) ==
  IF item \in DOMAIN stored THEN [kind |-> "value", v |-> stored[item]]
  ELSE IF item \in Splits THEN [kind |-> "raise", exc |-> "ValueError"]
  ELSE [kind |-> "None"]

\* C4 as stated: a read of any name gives the value last stored under it
\* ('mode' and 'depth' stored at construction), ValueError for a split
\* never stored, None for any other name never stored
C4_ReadAnyName ==
  got.item # "" => got.res = ReadAsStored(got.item)

ReadStored ==
  /\ args = stored
  /\ (got.item # "" /\ got.item \notin ClassAttrs) =>
        got.res = ReadAsStored(got.item)
  /\ (got.item # "" /\ got.item \in ClassAttrs) =>
        got.res = [kind |-> "method", name |-> got.item]

\* C4, amended: a read of a name that normal attribute lookup does not
\* find on the object gives the value last stored under it ('mode' and
\* 'depth' stored at construction), ValueError for a split never stored and
\* None for any other name never stored; a name normal lookup finds (the
\* method setattr) reads as that attribute whatever was stored under it;
\* a read never changes the stored state
C4_ReadStored ==
  /\ []ReadStored
  /\ [][got' # NoRead => (args' = args /\ stored' = stored)]_vars

C4_Witness ==
  /\ got.item = "mode"
  /\ "train" \in DOMAIN stored
  /\ stored["mode"] = "b"
  /\ got.res = [kind |-> "value", v |-> "b"]

(***************************************************************************)
(* The filesystem and pathlib                                              *)
(*                                                                         *)
(* A path is the sequence of its components below the topmost path, <<>>,  *)
(* which is the root of an absolute path and '.' of a relative one.        *)
(***************************************************************************)
FsNames == {"a", "b"}

\* a pattern component is a name or the wildcard
UrlNames == FsNames \cup {"*"}

PathsOver(names) == UNION {[1..n -> names] : n \in 0..MaxDepth}

\* Path.parent: the topmost path is its own parent
Parent(p) == IF p = <<>> THEN <<>> ELSE SubSeq(p, 1, Len(p) - 1)

IsPrefix(p, q) == Len(p) <= Len(q) /\ SubSeq(q, 1, Len(p)) = p

Nodes(f) == f.dirs \cup f.files \cup {<<>>}

\* the filesystems with at most MaxNodes entries below the topmost
\* directory: every entry's parent is a directory
Trees ==
  {t \in SUBSET (PathsOver(FsNames) \ {<<>>}) :
     /\ Cardinality(t) <= MaxNodes
     /\ \A q \in t : Parent(q) = <<>> \/ Parent(q) \in t}

Leaves(t) == {q \in t : ~\E c \in t : Parent(c) = q}

FileSystems ==
  UNION {{[dirs |-> t \ fl, files |-> fl] : fl \in SUBSET Leaves(t)} : t \in Trees}

\* what url_p.exists() does: "raise" (OSError), "yes" or "no"
ExistsOutcome(f, dn, p) ==
  IF \E d \in dn : IsPrefix(d, p) THEN "raise"
  ELSE IF p \in Nodes(f) THEN "yes"
  ELSE "no"

\* url.relative_to(url_p), url_p an ancestor of url
RelativeTo(u, p) == SubSeq(u, Len(p) + 1, Len(u))

Children(f, p) == {q \in f.dirs \cup f.files : Parent(q) = p /\ q # <<>>}

\* the order in which the filesystem lists entries
RECURSIVE PathCode(_)
PathCode(q) ==
  IF q = <<>> THEN 0
  ELSE PathCode(Parent(q)) * 3 + (IF q[Len(q)] = "a" THEN 1 ELSE 2)

RECURSIVE Listing(_)
Listing(S) ==
  IF S = {} THEN <<>>
  ELSE LET q == CHOOSE q \in S : \A o \in S : PathCode(q) <= PathCode(o)
       IN  <<q>> \o Listing(S \ {q})

Paths(S) == [kind |-> "paths", paths |-> Listing(S)]

\* Path.iterdir
Iterdir(f, p) ==
  IF p \in f.files THEN [kind |-> "raise", exc |-> "NotADirectoryError"]
  ELSE Paths(Children(f, p))

MatchName(pat, name) == pat = "*" \/ pat = name

\* Path.glob: one pattern component at a time, down from the path
RECURSIVE Select(_, _, _)
Select(f, base, pattern) ==
  IF pattern = <<>> THEN {base}
  ELSE UNION {Select(f, c, Tail(pattern)) :
                c \in {c \in Children(f, base) : MatchName(Head(pattern), c[Len(c)])}}

Glob(f, p, pattern) == Paths(Select(f, p, pattern))

\* lines 57-60 with the '.' test dropped
GlobResultNoDot(f, u, p) == Glob(f, p, RelativeTo(u, p))

\* lines 57-60
GlobResult(f, u, p) ==
  LET url_r == RelativeTo(u, p)
  IN  IF url_r = <<>> THEN Iterdir(f, p) ELSE Glob(f, p, url_r)

(***************************************************************************)
(* _glob_absolute_pattern                                                  *)
(***************************************************************************)
NoResult == [kind |-> "none"]

\* a call on any url over any filesystem; OSError is raised at and below
\* at most one ancestor of url, which is then no entry of the filesystem
GInit ==
  /\ fs \in FileSystems
  /\ url \in PathsOver(UrlNames)
  /\ denied \in {{}} \cup {{d} : d \in {d \in PathsOver(UrlNames) : IsPrefix(d, url)}}
  /\ \A d \in denied : \A q \in fs.dirs \cup fs.files : ~IsPrefix(d, q)
  /\ url_p = url
  /\ result = NoResult
  /\ gpc = "try"
  /\ TIdle /\ UIdle /\ DIdle /\ LIdle

\* lines 48-50: url_p.exists() breaks, raises or falls through
TryExists ==
  /\ gpc = "try"
  /\ gpc' = CASE ExistsOutcome(fs, denied, url_p) = "raise" -> "except"
              [] ExistsOutcome(fs, denied, url_p) = "yes" -> "found"
              [] OTHER -> "parent"
  /\ UNCHANGED <<fs, denied, url, url_p, result, tvars, uvars, dvars, lvars>>

\* lines 51-53: except OSError
ExceptOSError ==
  /\ gpc = "except"
  /\ url_p' = Parent(url_p)
  /\ gpc' = "try"
  /\ UNCHANGED <<fs, denied, url, result, tvars, uvars, dvars, lvars>>

\* lines 54-56
CheckParent ==
  /\ gpc = "parent"
  /\ IF url_p = Parent(url_p)
     THEN gpc' = "found" /\ UNCHANGED url_p
     ELSE gpc' = "try" /\ url_p' = Parent(url_p)
  /\ UNCHANGED <<fs, denied, url, result, tvars, uvars, dvars, lvars>>

\* lines 57-60
Return ==
  /\ gpc = "found"
  /\ result' = GlobResult(fs, url, url_p)
  /\ gpc' = "done"
  /\ UNCHANGED <<fs, denied, url, url_p, tvars, uvars, dvars, lvars>>

GNext == TryExists \/ ExceptOSError \/ CheckParent \/ Return

SpecGlob == GInit /\ [][GNext]_vars

\* every statement of the function is eventually executed
SpecGlobFair == GInit /\ [][GNext]_vars /\ WF_vars(GNext)

\* the deepest ancestor of url, url included, that is on disk
DeepestExisting ==
  CHOOSE p \in Nodes(fs) :
    /\ IsPrefix(p, url)
    /\ \A q \in Nodes(fs) : IsPrefix(q, url) => Len(q) <= Len(p)

\* the entries on disk that match the rest of url below the anchor
Matches(anchor) ==
  {q \in fs.dirs \cup fs.files :
     /\ Len(q) = Len(url)
     /\ IsPrefix(anchor, q)
     /\ \A k \in (Len(anchor) + 1)..Len(url) : MatchName(url[k], q[k])}

SameEntries(res, S) ==
  /\ res.kind = "paths"
  /\ Len(res.paths) = Cardinality(S)
  /\ {res.paths[k] : k \in 1..Len(res.paths)} = S

C8_Terminates == <>(gpc = "done")

(***************************************************************************)
(* load_datasets                                                           *)
(***************************************************************************)
\* Path(url): the components of the string
ParsePath(str) ==
  CASE str = "a" -> <<"a">>
    [] str = "a/" -> <<"a">>
    [] str = "b" -> <<"b">>
    [] str = "*" -> <<"*">>
    [] str = "a/*" -> <<"a", "*">>
    [] OTHER -> <<str>>

\* the loop of lines 47-56, run to its end
RECURSIVE Anchor(_, _, _)
Anchor(f, dn, p) ==
  IF ExistsOutcome(f, dn, p) = "raise" THEN Anchor(f, dn, Parent(p))
  ELSE IF ExistsOutcome(f, dn, p) = "yes" THEN p
  ELSE IF p = Parent(p) THEN p
  ELSE Anchor(f, dn, Parent(p))

\* _glob_absolute_pattern(str) where no existence check raises
GlobAbsolutePattern(f, str) ==
  GlobResult(f, ParsePath(str), Anchor(f, {}, ParsePath(str)))

\* to_list of a list is the list
ToList(v) == v

\* lines 78-81 with the lookup in all_set_path left out
ResolveItemNoTable(all_set_path, j) == j

\* lines 78-81: all_set_path[j], or j itself on KeyError
ResolveItem(all_set_path, j) ==
  IF j \in DOMAIN all_set_path THEN all_set_path[j] ELSE j

\* lines 76-81 from item k on: sets, or "raise" once a glob raises
RECURSIVE CollectSets(_, _, _, _, _)
CollectSets(f, all_set_path, items, k, sets) ==
  IF k > Len(items) THEN [kind |-> "paths", paths |-> sets]
  ELSE LET r == GlobAbsolutePattern(f, ResolveItem(all_set_path, items[k]))
       IN  IF r.kind = "raise" THEN r
           ELSE CollectSets(f, all_set_path, items, k + 1, sets \o r.paths)

SplitKeys(value) == DOMAIN value \cap Splits

\* whether lines 73-82 raise for an entry
EntryRaises(f, all_set_path, value) ==
  \E i \in SplitKeys(value) :
    CollectSets(f, all_set_path, ToList(value[i]), 1, <<>>).kind = "raise"

\* lines 72-85 for one entry: the _args of its Dataset
LoadEntry(f, all_set_path, value) ==
  LET d0 == DatasetInit(<<>>)
      d1 == [n \in DOMAIN d0 \cup SplitKeys(value) |->
               IF n \in SplitKeys(value)
               THEN CollectSets(f, all_set_path, ToList(value[n]), 1, <<>>).paths
               ELSE d0[n]]
  IN  IF "param" \in DOMAIN value THEN DictUpdate(d1, value["param"]) ELSE d1

\* strings of the JSON file
Items == {"a", "a/", "*"}

ItemLists == UNION {[1..n -> Items] : n \in 0..MaxItems}

\* config["Path"]
PathTables == {<<>>} \cup {[k \in {"a"} |-> v] : v \in {"*", "b"}}

\* 'param' tables: an additional property, or a value for a split name
Params == {[depth |-> 2], [train |-> <<<<"x">>>>]}

\* a dict with the keys train, val, param and note that are wanted
EntryOf(ht, tr, hv, va, hp, pa, hn) ==
  [k \in (IF ht THEN {"train"} ELSE {}) \cup (IF hv THEN {"val"} ELSE {})
         \cup (IF hp THEN {"param"} ELSE {}) \cup (IF hn THEN {"note"} ELSE {}) |->
     IF k = "train" THEN tr ELSE IF k = "val" THEN va
     ELSE IF k = "param" THEN pa ELSE <<"text">>]

Entries ==
  {EntryOf(ht, tr, hv, <<"*">>, hp, pa, hn) :
     ht \in BOOLEAN, tr \in ItemLists, hv \in BOOLEAN, hp \in BOOLEAN,
     pa \in Params, hn \in BOOLEAN}

SecondEntries ==
  {EntryOf(TRUE, <<"*">>, FALSE, <<>>, TRUE, [val |-> <<<<"x">>>>], FALSE),
   EntryOf(FALSE, <<>>, TRUE, <<"a">>, FALSE, <<>>, FALSE)}

\* config["Dataset"]: one entry, or two
DatasetTables ==
  {[n \in {"D1"} |-> e] : e \in Entries}
  \cup {[n \in {"D1", "D2"} |-> IF n = "D1" THEN e ELSE e2] :
          e \in Entries, e2 \in SecondEntries}

\* the filesystems that hold 'a', 'b' and one entry inside 'a'
LoadFileSystems ==
  {f \in FileSystems :
     \E c \in FsNames : f.dirs \cup f.files = {<<"a">>, <<"b">>, <<"a", c>>}}

LInit ==
  /\ fs \in LoadFileSystems
  /\ config \in {[Path |-> pt, Dataset |-> dt] :
                   pt \in PathTables, dt \in DatasetTables}
  /\ datasets = <<>>
  /\ lpc = "call"
  /\ denied = {} /\ url = <<>> /\ url_p = <<>> /\ result = <<>> /\ gpc = "idle"
  /\ TIdle /\ UIdle /\ DIdle

\* load_datasets
LoadDatasets ==
  /\ lpc = "call"
  /\ IF \E n \in DOMAIN config.Dataset :
          EntryRaises(fs, config.Path, config.Dataset[n])
     THEN lpc' = "raised" /\ UNCHANGED datasets
     ELSE /\ lpc' = "returned"
          /\ datasets' = [n \in DOMAIN config.Dataset |->
                            LoadEntry(fs, config.Path, config.Dataset[n])]
  /\ UNCHANGED <<config, tvars, uvars, dvars, gvars>>

LNext == LoadDatasets

SpecLoad == LInit /\ [][LNext]_vars

\* the glob results of the items of a list, one after the other
RECURSIVE ExpectedSets(_)
ExpectedSets(items) ==
  IF items = <<>> THEN <<>>
  ELSE LET j == Head(items)
           pattern == IF j \in DOMAIN config.Path THEN config.Path[j] ELSE j
       IN  GlobAbsolutePattern(fs, pattern).paths \o ExpectedSets(Tail(items))

\* C3 as stated: every split an entry lists is set to the concatenation,
\* in listed order, of the glob results of its items, an item that is a
\* key of config["Path"] resolved through that table; a split the entry
\* does not list stays unset; other keys contribute nothing
C3_AsStated ==
  lpc = "returned" =>
    \A n \in DOMAIN config.Dataset :
      LET value == config.Dataset[n]
      IN  \A k \in Splits :
            IF k \in DOMAIN value
            THEN /\ k \in DOMAIN datasets[n]
                 /\ datasets[n][k] = ExpectedSets(value[k])
            ELSE k \notin DOMAIN datasets[n]

\* C3, amended: as stated for every split that the entry's 'param' table
\* does not name; a split that 'param' names holds the value 'param' gives
\* it, listed or not; the Dataset holds nothing but 'mode', 'depth', the
\* listed splits and the keys of 'param'
C3_Load ==
  lpc = "returned" =>
    /\ DOMAIN datasets = DOMAIN config.Dataset
    /\ \A n \in DOMAIN config.Dataset :
         LET value == config.Dataset[n]
             param == IF "param" \in DOMAIN value THEN value["param"] ELSE <<>>
         IN  /\ DOMAIN datasets[n] =
                  {"mode", "depth"} \cup (DOMAIN value \cap Splits) \cup DOMAIN param
             /\ \A k \in Splits :
                  IF k \in DOMAIN param THEN datasets[n][k] = param[k]
                  ELSE IF k \in DOMAIN value
                  THEN datasets[n][k] = ExpectedSets(value[k])
                  ELSE k \notin DOMAIN datasets[n]

C3_Witness ==
  /\ lpc = "returned"
  /\ DOMAIN config.Path = {"a"}
  /\ config.Path["a"] = "*"
  /\ DOMAIN config.Dataset = {"D1", "D2"}
  /\ DOMAIN config.Dataset["D1"] = {"train", "note"}
  /\ config.Dataset["D1"]["train"] = <<"a/", "a">>
  /\ datasets["D1"]["train"] = <<<<"a", "a">>, <<"a">>, <<"b">>>>

====
